---- MODULE Spec2Model ----
(***************************************************************************)
(* Price and stock synchronisation of a supplier feed into the Ozon and    *)
(* Yandex Market catalogs (seller.py, market.py).                          *)
(*                                                                         *)
(* Python values are modelled as follows.  A str is a sequence of          *)
(* one-character strings; a spreadsheet cell is a tagged value, either     *)
(* Str(s) or Int(n) (pandas yields both in an object column); a list is a  *)
(* sequence; a dict is a record.                                           *)
(***************************************************************************)
EXTENDS Naturals, Sequences, FiniteSets, TLC

VARIABLES
    prog,            \* entry point being run
    pc,              \* position in the entry point
    phase,           \* marketplace target the run is working on
    product_list,    \* get_offer_ids: items collected so far
    total,           \* get_offer_ids (Ozon): the total of the last response, once there is one
    offer_ids,       \* the caller's working list of catalog identifiers
    watch_remnants,  \* the source feed records
    stocks,          \* result of create_stocks
    origin,          \* for each entry of stocks, the feed index it was built from (0: synthetic)
    prices,          \* result of create_prices
    sent,            \* chunks of the current upload loop already submitted
    writes,          \* write requests issued, in order, each with its status
    fetched,         \* per target, the catalog get_offer_ids returned to main
    failed,          \* a marketplace request has returned a non-2xx status
    reqAfterFail,    \* a request was issued after one returned non-2xx
    exc,             \* the exception in flight
    outcome,         \* how the entry point ended
    reported,        \* which except clause of main printed
    ostatki_xls,     \* the file ostatki.xls exists in the working directory
    call,            \* pure-function harness: the function and its arguments
    ret              \* pure-function harness: the value returned

vars == <<prog, pc, phase, product_list, total, offer_ids, watch_remnants,
          stocks, origin, prices, sent, writes, fetched, failed, reqAfterFail,
          exc, outcome, reported, ostatki_xls, call, ret>>

(***************************************************************************)
(* Bounds of the model.                                                    *)
(***************************************************************************)
MaxCatalog == 2      \* identifiers a small catalog listing returns in all
MaxFeed == 2         \* records of a small source feed
MaxTotal == 2        \* largest total a small listing response reports
MaxLst == 5          \* divide: longest list tried
MaxN == 3            \* divide: largest chunk size tried
MaxPriceLen == 4     \* price_conversion: longest string tried
Over == 1            \* a large list exceeds its endpoint's chunk size by up to this

(***************************************************************************)
(* Chunk sizes passed to divide.                                           *)
(***************************************************************************)
OzonStocksChunk == 100
OzonPricesChunkMain == 900
OzonPricesChunk == 1000
YandexStocksChunk == 2000
YandexPricesChunk == 500

(***************************************************************************)
(* Python built-ins.                                                       *)
(***************************************************************************)
Str(s) == [t |-> "str", s |-> s]
Int(n) == [t |-> "int", n |-> n]

DigitChars == <<"0", "1", "2", "3", "4", "5", "6", "7", "8", "9">>

IsDigit(c) == \E d \in 1..10 : DigitChars[d] = c

DigitValue(c) == (CHOOSE d \in 1..10 : DigitChars[d] = c) - 1

RECURSIVE Digits(_)
Digits(n) == IF n < 10 THEN <<DigitChars[n + 1]>>
             ELSE Append(Digits(n \div 10), DigitChars[(n % 10) + 1])

RECURSIVE Decimal(_)
Decimal(s) == IF s = <<>> THEN 0
              ELSE 10 * Decimal(SubSeq(s, 1, Len(s) - 1)) + DigitValue(s[Len(s)])

\* str(x)
PyStr(v) == IF v.t = "str" THEN v.s ELSE Digits(v.n)

\* int(x) raises ValueError unless x is an int or a str of decimal digits
PyIntRaises(v) == v.t = "str" /\ (v.s = <<>> \/ \E i \in 1..Len(v.s) : ~IsDigit(v.s[i]))

PyInt(v) == IF v.t = "int" THEN v.n ELSE Decimal(v.s)

\* x in lst
In(x, lst) == \E i \in 1..Len(lst) : lst[i] = x

\* lst.remove(x): drops the first occurrence
\* variant of Remove: drops every occurrence of x
Remove_all(lst, x) == SelectSeq(lst, LAMBDA y : y # x)

\* variant of Remove: drops nothing
Remove_none(lst, x) == lst

Remove(lst, x) ==
    LET k == CHOOSE i \in 1..Len(lst) : lst[i] = x /\ \A j \in 1..(i - 1) : lst[j] # x
    IN  SubSeq(lst, 1, k - 1) \o SubSeq(lst, k + 1, Len(lst))

\* lst[i : j] with 0 <= i <= j
Slice(lst, i, j) == SubSeq(lst, i + 1, IF j < Len(lst) THEN j ELSE Len(lst))

\* list(range(0, stop, step))
Range0(stop, step) == [k \in 1..((stop + step - 1) \div step) |-> (k - 1) * step]

(***************************************************************************)
(* seller.py: price_conversion and divide.                                 *)
(***************************************************************************)
\* price.rsplit(".", 1)[0]: the part before the last dot
SplitDot0_last(s) ==
    IF \E i \in 1..Len(s) : s[i] = "."
    THEN SubSeq(s, 1, (CHOOSE i \in 1..Len(s) : s[i] = "." /\ \A j \in (i + 1)..Len(s) : s[j] # ".") - 1)
    ELSE s

\* price.split(".")[0]
SplitDot0(s) ==
    IF \E i \in 1..Len(s) : s[i] = "."
    THEN SubSeq(s, 1, (CHOOSE i \in 1..Len(s) : s[i] = "." /\ \A j \in 1..(i - 1) : s[j] # ".") - 1)
    ELSE s

\* re.sub("[^0-9]", "", s)
SubNonDigits(s) == SelectSeq(s, IsDigit)

price_conversion(price) == SubNonDigits(SplitDot0(price))

\* divide with chunks of n + 1 elements
divide_wide(lst, n) == [k \in 1..Len(Range0(Len(lst), n + 1)) |->
                      Slice(lst, Range0(Len(lst), n + 1)[k], Range0(Len(lst), n + 1)[k] + n + 1)]

\* divide with the slice taken one element too long
divide_overlap(lst, n) == [k \in 1..Len(Range0(Len(lst), n)) |->
                      Slice(lst, Range0(Len(lst), n)[k], Range0(Len(lst), n)[k] + n + 1)]

divide(lst, n) == [k \in 1..Len(Range0(Len(lst), n)) |->
                      Slice(lst, Range0(Len(lst), n)[k], Range0(Len(lst), n)[k] + n)]

(***************************************************************************)
(* Reconciliation: create_stocks and create_prices of both marketplaces.   *)
(* A for loop over ws[lo..hi] threads the loop state st through the        *)
(* records in list order; the range is halved, the first half is run to    *)
(* its end and then the second, so that the order of the iterations is     *)
(* the list order and the evaluation depth stays logarithmic.  A loop      *)
(* state with raised = TRUE is an exception in flight: it ends the loop.   *)
(***************************************************************************)
GT10 == <<">", "1", "0">>

\* the if / elif / else on count: the exception of int() and the value of stock
StockRaises(watch) ==
    LET count == PyStr(watch.Kolichestvo)
    IN  count # GT10 /\ count # <<"1">> /\ PyIntRaises(watch.Kolichestvo)

\* the quantity rule without its elif branch
StockOf_no_elif(watch) ==
    LET count == PyStr(watch.Kolichestvo)
    IN  IF count = GT10 THEN 100 ELSE PyInt(watch.Kolichestvo)

StockOf(watch) ==
    LET count == PyStr(watch.Kolichestvo)
    IN  IF count = GT10 THEN 100
        ELSE IF count = <<"1">> THEN 0
        ELSE PyInt(watch.Kolichestvo)

\* one iteration of seller.create_stocks' first loop on record number i
create_stocks_step(st, i, watch) ==
    IF st.raised \/ ~In(PyStr(watch.Kod), st.offer_ids) THEN st
    ELSE IF StockRaises(watch) THEN [st EXCEPT !.raised = TRUE]
    ELSE [stocks    |-> Append(st.stocks, [offer_id |-> PyStr(watch.Kod), stock |-> StockOf(watch)]),
          origin    |-> Append(st.origin, i),
          offer_ids |-> Remove(st.offer_ids, PyStr(watch.Kod)),
          raised    |-> FALSE]

RECURSIVE create_stocks_loop(_, _, _, _)
create_stocks_loop(ws, lo, hi, st) ==
    IF lo > hi THEN st
    ELSE IF lo = hi THEN create_stocks_step(st, lo, ws[lo])
    ELSE LET first == create_stocks_loop(ws, lo, (lo + hi) \div 2, st)
         IN  IF first.raised THEN first
             ELSE create_stocks_loop(ws, ((lo + hi) \div 2) + 1, hi, first)

\* seller.create_stocks: the result, the mutated offer_ids, and whether it raised
create_stocks(ws, ids) ==
    LET st == create_stocks_loop(ws, 1, Len(ws),
                  [stocks |-> <<>>, origin |-> <<>>, offer_ids |-> ids, raised |-> FALSE])
    IN  IF st.raised THEN st
        ELSE [st EXCEPT
                !.stocks = st.stocks \o [k \in 1..Len(st.offer_ids) |->
                               [offer_id |-> st.offer_ids[k], stock |-> 0]],
                !.origin = st.origin \o [k \in 1..Len(st.offer_ids) |-> 0]]

\* the stock record of market.create_stocks; the date is one value per call
MarketStock(sku, warehouse_id, count) ==
    [sku |-> sku, warehouseId |-> warehouse_id,
     items |-> <<[count |-> count, type |-> "FIT", updatedAt |-> "utcnow"]>>]

market_create_stocks_step(st, i, watch, warehouse_id) ==
    IF st.raised \/ ~In(PyStr(watch.Kod), st.offer_ids) THEN st
    ELSE IF StockRaises(watch) THEN [st EXCEPT !.raised = TRUE]
    ELSE [stocks    |-> Append(st.stocks, MarketStock(PyStr(watch.Kod), warehouse_id, StockOf(watch))),
          origin    |-> Append(st.origin, i),
          offer_ids |-> Remove(st.offer_ids, PyStr(watch.Kod)),
          raised    |-> FALSE]

RECURSIVE market_create_stocks_loop(_, _, _, _, _)
market_create_stocks_loop(ws, lo, hi, st, warehouse_id) ==
    IF lo > hi THEN st
    ELSE IF lo = hi THEN market_create_stocks_step(st, lo, ws[lo], warehouse_id)
    ELSE LET first == market_create_stocks_loop(ws, lo, (lo + hi) \div 2, st, warehouse_id)
         IN  IF first.raised THEN first
             ELSE market_create_stocks_loop(ws, ((lo + hi) \div 2) + 1, hi, first, warehouse_id)

market_create_stocks(ws, ids, warehouse_id) ==
    LET st == market_create_stocks_loop(ws, 1, Len(ws),
                  [stocks |-> <<>>, origin |-> <<>>, offer_ids |-> ids, raised |-> FALSE],
                  warehouse_id)
    IN  IF st.raised THEN st
        ELSE [st EXCEPT
                !.stocks = st.stocks \o [k \in 1..Len(st.offer_ids) |->
                               MarketStock(st.offer_ids[k], warehouse_id, 0)],
                !.origin = st.origin \o [k \in 1..Len(st.offer_ids) |-> 0]]

\* seller.create_prices: offer_ids is only read
create_prices_step(st, watch, ids) ==
    IF ~In(PyStr(watch.Kod), ids) THEN st
    ELSE [st EXCEPT !.prices = Append(st.prices,
              [auto_action_enabled |-> "UNKNOWN", currency_code |-> "RUB",
               offer_id |-> PyStr(watch.Kod), old_price |-> "0",
               price |-> price_conversion(watch.Tsena)])]

RECURSIVE create_prices_loop(_, _, _, _, _)
create_prices_loop(ws, lo, hi, st, ids) ==
    IF lo > hi THEN st
    ELSE IF lo = hi THEN create_prices_step(st, ws[lo], ids)
    ELSE LET first == create_prices_loop(ws, lo, (lo + hi) \div 2, st, ids)
         IN  IF first.raised THEN first
             ELSE create_prices_loop(ws, ((lo + hi) \div 2) + 1, hi, first, ids)

create_prices(ws, ids) ==
    create_prices_loop(ws, 1, Len(ws), [prices |-> <<>>, raised |-> FALSE], ids)

\* market.create_prices: int() of the converted price raises on a price without digits
market_create_prices_step(st, watch, ids) ==
    IF st.raised \/ ~In(PyStr(watch.Kod), ids) THEN st
    ELSE IF PyIntRaises(Str(price_conversion(watch.Tsena))) THEN [st EXCEPT !.raised = TRUE]
    ELSE [st EXCEPT !.prices = Append(st.prices,
              [id |-> PyStr(watch.Kod),
               price |-> [value |-> PyInt(Str(price_conversion(watch.Tsena))), currencyId |-> "RUR"]])]

RECURSIVE market_create_prices_loop(_, _, _, _, _)
market_create_prices_loop(ws, lo, hi, st, ids) ==
    IF lo > hi THEN st
    ELSE IF lo = hi THEN market_create_prices_step(st, ws[lo], ids)
    ELSE LET first == market_create_prices_loop(ws, lo, (lo + hi) \div 2, st, ids)
         IN  IF first.raised THEN first
             ELSE market_create_prices_loop(ws, ((lo + hi) \div 2) + 1, hi, first, ids)

market_create_prices(ws, ids) ==
    market_create_prices_loop(ws, 1, Len(ws), [prices |-> <<>>, raised |-> FALSE], ids)

(***************************************************************************)
(* The inputs tried.  Letters stand for the Cyrillic letters of a price    *)
(* suffix: price_conversion treats every character that is neither a       *)
(* digit nor a dot alike.                                                  *)
(***************************************************************************)
S123 == <<"1", "2", "3">>
S456 == <<"4", "5", "6">>

SmallSkus == {S123, S456}

Watch(code, count, price) == [Kod |-> code, Kolichestvo |-> count, Tsena |-> price]

P5990 == <<"5", "'", "9", "9", "0", ".", "0", "0", " ", "r", "u", "b", ".">>
P1234 == <<"1", " ", "2", "3", "4", " ", "r", "u", "b", ".">>
PText == <<"n", "o", " ", "d", "i", "g", "i", "t", "s">>

FeedRecords ==
    { Watch(Str(S123), Str(GT10), P5990),
      Watch(Int(123), Int(1), P1234),
      Watch(Str(S456), Str(<<"4", "2">>), <<>>),
      Watch(Str(S456), Str(<<>>), PText) }

SeqsUpTo(S, n) == UNION {[1..k -> S] : k \in 0..n}

SmallFeeds == SeqsUpTo(FeedRecords, MaxFeed)

\* n distinct identifiers, the first of them "123"
BigCatalog(n) == [i \in 1..n |-> Digits(i + 122)]

\* n copies of one identifier
RepCatalog(n) == [i \in 1..n |-> S123]

\* n records of one code
BigFeed(n) == [i \in 1..n |-> Watch(Str(S123), Str(<<"0">>), <<"9", "9", "0">>)]

Progs == {"seller.main", "market.main", "seller.upload_stocks", "seller.upload_prices",
          "market.upload_stocks", "market.upload_prices"}

IsSeller(p) == p \in {"seller.main", "seller.upload_stocks", "seller.upload_prices"}

IsMain(p) == p \in {"seller.main", "market.main"}

\* the chunk size each upload loop passes to divide
StocksChunk(p) == IF IsSeller(p) THEN OzonStocksChunk ELSE YandexStocksChunk

PricesChunk(p) == IF p = "seller.main" THEN OzonPricesChunkMain
                  ELSE IF p = "seller.upload_prices" THEN OzonPricesChunk
                  ELSE YandexPricesChunk

\* the feeds a run is tried with: the small ones, and for a run that uploads
\* prices the feeds around its price chunk size
Feeds(p) ==
    SmallFeeds \cup
    (IF p \in {"seller.main", "seller.upload_prices", "market.upload_prices"}
     THEN {BigFeed(n) : n \in PricesChunk(p)..(PricesChunk(p) + Over)}
     ELSE {})

\* the large listings a run is tried with, each given by its length: distinct
\* identifiers around the stock chunk size, and for seller.main one identifier
\* repeated more often than the large feeds have records
BigPages(p) ==
    (IF p \in {"seller.upload_prices", "market.upload_prices"} THEN {}
     ELSE {[rep |-> FALSE, n |-> n] : n \in StocksChunk(p)..(StocksChunk(p) + Over)})
    \cup
    (IF p = "seller.main"
     THEN {[rep |-> TRUE, n |-> n] : n \in (PricesChunk(p) + 1)..(PricesChunk(p) + Over + 1)}
     ELSE {})

BigPage(b) == IF b.rep THEN RepCatalog(b.n) ELSE BigCatalog(b.n)

\* the pairs of listing and feed tried together: a large listing goes with a feed
\* of at most one record, the repeated identifier also with the large feeds
Tried(cat, ws) ==
    \/ Len(cat) <= MaxCatalog
    \/ Len(ws) <= 1
    \/ Len(ws) > MaxFeed /\ cat = RepCatalog(Len(cat))

SmallPages(cur) == {s \in SeqsUpTo(SmallSkus, MaxCatalog) : Len(cur) + Len(s) <= MaxCatalog}

Targets == {"ozon", "fbs", "dbs"}

NotFetched == [got |-> FALSE, ids |-> <<>>]

(***************************************************************************)
(* Control flow of the entry points.                                       *)
(***************************************************************************)
FirstPc(p) == IF p = "market.main" THEN "download_stock" ELSE "get_offer_ids"

FirstPhase(p) == IF IsSeller(p) THEN "ozon" ELSE "fbs"

\* the statement that follows statement at of entry point p in phase ph
NextPc(p, ph, at) ==
    IF at = "download_stock" THEN (IF p = "seller.main" THEN "create_stocks" ELSE "get_offer_ids")
    ELSE IF at = "get_offer_ids" THEN
        (IF p = "seller.main" THEN "download_stock"
         ELSE IF p \in {"seller.upload_prices", "market.upload_prices"} THEN "create_prices"
         ELSE "create_stocks")
    ELSE IF at = "create_stocks" THEN "update_stocks"
    ELSE IF at = "update_stocks" THEN
        (IF p = "seller.main" THEN "create_prices"
         ELSE IF p = "market.main" THEN "upload_prices"
         ELSE "return")
    ELSE IF at = "upload_prices" THEN (IF ph = "fbs" THEN "get_offer_ids" ELSE "return")
    ELSE IF at = "create_prices" THEN "update_price"
    ELSE "return"

NextPhase(p, ph, at) == IF p = "market.main" /\ at = "upload_prices" THEN "dbs" ELSE ph

\* is statement at of entry point p inside a try block with handlers
InTry(p, at) == p = "seller.main" \/ (p = "market.main" /\ at # "download_stock")

\* the failed statement is run again instead of being left
AfterRaise_retry(p, at) == at

\* where an exception raised at statement at takes control
AfterRaise(p, at) == IF InTry(p, at) THEN "except" ELSE "propagate"

\* the except clause that takes exception kind e
ExceptClause(e) == IF e = "ReadTimeout" THEN "timeout"
                   ELSE IF e = "ConnectionError" THEN "connection"
                   ELSE "ERROR_2"

RequestErrors == {"HTTPError", "ReadTimeout", "ConnectionError"}

\* raise e at the current statement
Raise(e) ==
    /\ exc' = e
    /\ pc' = AfterRaise(prog, pc)
    /\ phase' = phase
    /\ outcome' = IF AfterRaise(prog, pc) = "propagate" THEN "raised" ELSE outcome

\* fall through to the next statement
Goto ==
    /\ pc' = NextPc(prog, phase, pc)
    /\ phase' = NextPhase(prog, phase, pc)
    /\ outcome' = IF NextPc(prog, phase, pc) = "return" THEN "returned" ELSE outcome
    /\ exc' = exc

Warehouse(ph) == IF ph = "fbs" THEN "warehouse_fbs_id" ELSE "warehouse_dbs_id"

(***************************************************************************)
(* The run.                                                                *)
(***************************************************************************)
\* total before the first response
NoTotal == [known |-> FALSE, n |-> 0]

Idle == [fn |-> "none"]

NoRet == [done |-> FALSE, value |-> <<>>]

Init ==
    /\ prog \in Progs
    /\ pc = FirstPc(prog)
    /\ phase = FirstPhase(prog)
    /\ product_list = <<>>
    /\ total = NoTotal
    /\ offer_ids = <<>>
    /\ watch_remnants \in (IF IsMain(prog) THEN {<<>>} ELSE Feeds(prog))
    /\ stocks = <<>>
    /\ origin = <<>>
    /\ prices = <<>>
    /\ sent = 0
    /\ writes = <<>>
    /\ fetched = [t \in Targets |-> NotFetched]
    /\ failed = FALSE
    /\ reqAfterFail = FALSE
    /\ exc = "none"
    /\ outcome = "running"
    /\ reported = "none"
    /\ ostatki_xls = FALSE
    /\ call = Idle
    /\ ret = NoRet

\* get_offer_ids returns: product_list becomes the caller's offer_ids
GetOfferIdsReturn(list) ==
    /\ offer_ids' = list
    /\ fetched' = [fetched EXCEPT ![phase] = [got |-> TRUE, ids |-> list]]
    /\ product_list' = <<>>
    /\ total' = NoTotal
    /\ Goto

GetOfferIdsLoop(list, tot) ==
    /\ product_list' = list
    /\ total' = tot
    /\ UNCHANGED <<offer_ids, fetched, pc, phase, exc, outcome>>

\* one pass of the while loop of seller.get_offer_ids: the list request, then the test
GetProductListOzon ==
    /\ pc = "get_offer_ids" /\ IsSeller(prog)
    /\ reqAfterFail' = (reqAfterFail \/ failed)
    /\ \/ \E items \in SmallPages(product_list), tot \in 0..MaxTotal :
            /\ failed' = failed
            /\ IF tot = Len(product_list \o items)
               THEN GetOfferIdsReturn(product_list \o items)
               ELSE GetOfferIdsLoop(product_list \o items, [known |-> TRUE, n |-> tot])
       \/ /\ product_list = <<>> /\ Len(watch_remnants) <= 1
          /\ \E b \in BigPages(prog) :
               /\ failed' = failed
               /\ GetOfferIdsReturn(BigPage(b))
       \/ \E e \in RequestErrors :
            /\ failed' = (failed \/ e = "HTTPError")
            /\ Raise(e)
            /\ UNCHANGED <<product_list, total, offer_ids, fetched>>
    /\ UNCHANGED <<prog, watch_remnants, stocks, origin, prices, sent, writes, reported, ostatki_xls,
                   call, ret>>

\* one pass of the while loop of market.get_offer_ids
GetProductListYandex ==
    /\ pc = "get_offer_ids" /\ ~IsSeller(prog)
    /\ reqAfterFail' = (reqAfterFail \/ failed)
    /\ \/ \E items \in SmallPages(product_list), nextPageToken \in {"", "token"} :
            /\ failed' = failed
            /\ IF nextPageToken = ""
               THEN GetOfferIdsReturn(product_list \o items)
               ELSE GetOfferIdsLoop(product_list \o items, total)
       \/ /\ product_list = <<>> /\ Len(watch_remnants) <= 1
          /\ \E b \in BigPages(prog) :
               /\ failed' = failed
               /\ GetOfferIdsReturn(BigPage(b))
       \/ \E e \in RequestErrors :
            /\ failed' = (failed \/ e = "HTTPError")
            /\ Raise(e)
            /\ UNCHANGED <<product_list, total, offer_ids, fetched>>
    /\ UNCHANGED <<prog, watch_remnants, stocks, origin, prices, sent, writes, reported, ostatki_xls,
                   call, ret>>

\* download_stock called by a main.  The request fails before anything is
\* extracted; or the archive is extracted and read_excel raises, which skips the
\* os.remove after it; or the records are parsed, the file removed, and the
\* records returned.
DownloadStock ==
    /\ pc = "download_stock"
    /\ \/ \E e \in RequestErrors :
            /\ Raise(e)
            /\ UNCHANGED <<watch_remnants, ostatki_xls>>
       \/ /\ Raise("XLRDError")
          /\ ostatki_xls' = TRUE
          /\ UNCHANGED watch_remnants
       \/ \E feed \in Feeds(prog) :
            /\ Tried(offer_ids, feed)
            /\ watch_remnants' = feed
            /\ ostatki_xls' = FALSE
            /\ Goto
    /\ UNCHANGED <<prog, product_list, total, offer_ids, stocks, origin, prices, sent,
                   writes, fetched, failed, reqAfterFail, reported, call, ret>>

\* stocks = create_stocks(watch_remnants, offer_ids[, warehouse_id])
CreateStocks ==
    /\ pc = "create_stocks"
    /\ LET r == IF IsSeller(prog) THEN create_stocks(watch_remnants, offer_ids)
                ELSE market_create_stocks(watch_remnants, offer_ids, Warehouse(phase))
       IN  /\ offer_ids' = r.offer_ids
           /\ IF r.raised
              THEN Raise("ValueError") /\ UNCHANGED <<stocks, origin, sent>>
              ELSE stocks' = r.stocks /\ origin' = r.origin /\ sent' = 0 /\ Goto
    /\ UNCHANGED <<prog, product_list, total, watch_remnants, prices, writes, fetched,
                   failed, reqAfterFail, reported, ostatki_xls,
                   call, ret>>

\* one pass of "for some_stock in list(divide(stocks, n)): update_stocks(some_stock, ...)"
UpdateStocks ==
    /\ pc = "update_stocks"
    /\ LET chunks == divide(stocks, StocksChunk(prog))
       IN  \/ /\ sent = Len(chunks)
              /\ Goto
              /\ UNCHANGED <<sent, writes, failed, reqAfterFail>>
           \/ /\ sent < Len(chunks)
              /\ \E status \in {"ok"} \cup RequestErrors :
                   /\ writes' = Append(writes, [target |-> phase, kind |-> "stocks",
                                    idx |-> sent + 1, items |-> chunks[sent + 1], status |-> status])
                   /\ reqAfterFail' = (reqAfterFail \/ failed)
                   /\ failed' = (failed \/ status = "HTTPError")
                   /\ IF status = "ok"
                      THEN sent' = sent + 1 /\ UNCHANGED <<pc, phase, exc, outcome>>
                      ELSE Raise(status) /\ UNCHANGED sent
    /\ UNCHANGED <<prog, product_list, total, offer_ids, watch_remnants, stocks, origin,
                   prices, fetched, reported, ostatki_xls,
                   call, ret>>

\* prices = create_prices(watch_remnants, offer_ids), with offer_ids as it is by now
CreatePrices ==
    /\ pc = "create_prices"
    /\ LET r == IF IsSeller(prog) THEN create_prices(watch_remnants, offer_ids)
                ELSE market_create_prices(watch_remnants, offer_ids)
       IN  IF r.raised
           THEN Raise("ValueError") /\ UNCHANGED <<prices, sent>>
           ELSE prices' = r.prices /\ sent' = 0 /\ Goto
    /\ UNCHANGED <<prog, product_list, total, offer_ids, watch_remnants, stocks, origin,
                   writes, fetched, failed, reqAfterFail, reported, ostatki_xls,
                   call, ret>>

\* one pass of "for some_price in list(divide(prices, n)): update_price(some_price, ...)"
UpdatePrice ==
    /\ pc = "update_price"
    /\ LET chunks == divide(prices, PricesChunk(prog))
       IN  \/ /\ sent = Len(chunks)
              /\ Goto
              /\ UNCHANGED <<sent, writes, failed, reqAfterFail>>
           \/ /\ sent < Len(chunks)
              /\ \E status \in {"ok"} \cup RequestErrors :
                   /\ writes' = Append(writes, [target |-> phase, kind |-> "prices",
                                    idx |-> sent + 1, items |-> chunks[sent + 1], status |-> status])
                   /\ reqAfterFail' = (reqAfterFail \/ failed)
                   /\ failed' = (failed \/ status = "HTTPError")
                   /\ IF status = "ok"
                      THEN sent' = sent + 1 /\ UNCHANGED <<pc, phase, exc, outcome>>
                      ELSE Raise(status) /\ UNCHANGED sent
    /\ UNCHANGED <<prog, product_list, total, offer_ids, watch_remnants, stocks, origin,
                   prices, fetched, reported, ostatki_xls,
                   call, ret>>

\* market.main calls the coroutine function upload_prices without awaiting it:
\* a coroutine object is built and dropped, no statement of upload_prices runs
UploadPricesNotAwaited ==
    /\ pc = "upload_prices"
    /\ Goto
    /\ UNCHANGED <<prog, product_list, total, offer_ids, watch_remnants, stocks, origin,
                   prices, sent, writes, fetched, failed, reqAfterFail, reported, ostatki_xls,
                   call, ret>>

\* the except clauses of main: print and fall off the end of main
Except ==
    /\ pc = "except"
    /\ reported' = ExceptClause(exc)
    /\ pc' = "return"
    /\ outcome' = "returned"
    /\ UNCHANGED <<prog, phase, product_list, total, offer_ids, watch_remnants, stocks,
                   origin, prices, sent, writes, fetched, failed, reqAfterFail, exc,
                   ostatki_xls, call, ret>>

Next ==
    \/ GetProductListOzon
    \/ GetProductListYandex
    \/ DownloadStock
    \/ CreateStocks
    \/ UpdateStocks
    \/ CreatePrices
    \/ UpdatePrice
    \/ UploadPricesNotAwaited
    \/ Except

Spec == Init /\ [][Next]_vars

(***************************************************************************)
(* The pure functions on their own: one call of divide or of               *)
(* price_conversion on an argument drawn from the sets below.              *)
(***************************************************************************)
Elems == {"a", "b"}

PriceChars == {"5", "0", "'", ".", " ", "r"}

Calls ==
    {[fn |-> "divide", lst |-> l, n |-> n] : l \in SeqsUpTo(Elems, MaxLst), n \in 1..MaxN}
    \cup {[fn |-> "price_conversion", price |-> x] :
              x \in SeqsUpTo(PriceChars, MaxPriceLen) \cup {P5990, P1234, PText}}

InitPure ==
    /\ call \in Calls
    /\ ret = NoRet
    /\ prog = "none"
    /\ pc = "return"
    /\ phase = "none"
    /\ product_list = <<>>
    /\ total = NoTotal
    /\ offer_ids = <<>>
    /\ watch_remnants = <<>>
    /\ stocks = <<>>
    /\ origin = <<>>
    /\ prices = <<>>
    /\ sent = 0
    /\ writes = <<>>
    /\ fetched = [t \in Targets |-> NotFetched]
    /\ failed = FALSE
    /\ reqAfterFail = FALSE
    /\ exc = "none"
    /\ outcome = "running"
    /\ reported = "none"
    /\ ostatki_xls = FALSE

RunVars == <<prog, pc, phase, product_list, total, offer_ids, watch_remnants, stocks, origin,
             prices, sent, writes, fetched, failed, reqAfterFail, exc, outcome, reported,
             ostatki_xls>>

CallDivide ==
    /\ call.fn = "divide" /\ ~ret.done
    /\ ret' = [done |-> TRUE, value |-> divide(call.lst, call.n)]
    /\ UNCHANGED <<call, RunVars>>

CallPriceConversion ==
    /\ call.fn = "price_conversion" /\ ~ret.done
    /\ ret' = [done |-> TRUE, value |-> price_conversion(call.price)]
    /\ UNCHANGED <<call, RunVars>>

NextPure == CallDivide \/ CallPriceConversion

SpecPure == InitPure /\ [][NextPure]_vars

(***************************************************************************)
(* Properties.                                                             *)
(***************************************************************************)
\* the identifier and the quantity of a stock update, the identifier and the
\* price of a price update, in the schema of the marketplace of the run
Key(u) == IF IsSeller(prog) THEN u.offer_id ELSE u.sku

Qty(u) == IF IsSeller(prog) THEN u.stock ELSE u.items[1].count

PriceKey(u) == IF IsSeller(prog) THEN u.offer_id ELSE u.id

RECURSIVE Flatten(_)
Flatten(ss) == IF ss = <<>> THEN <<>> ELSE Head(ss) \o Flatten(Tail(ss))

\* create_stocks has just returned to the caller
Reconciled == pc = "update_stocks" /\ sent = 0

\* C1: create_stocks returns exactly one update per identifier of the offer_ids
\* it was given: every identifier of that list is the key of exactly one update,
\* no update has another key, an update built from a source record carries that
\* record's normalized quantity and a synthetic update carries 0.
C1_OneUpdatePerIdentifier ==
    Reconciled =>
        LET keys == {Key(stocks[k]) : k \in 1..Len(stocks)}
            ids  == {fetched[phase].ids[i] : i \in 1..Len(fetched[phase].ids)}
        IN  /\ keys = ids
            /\ Cardinality(keys) = Len(stocks)
            /\ \A k \in 1..Len(stocks) :
                 IF origin[k] = 0 THEN Qty(stocks[k]) = 0
                 ELSE /\ Key(stocks[k]) = PyStr(watch_remnants[origin[k]].Kod)
                      /\ Qty(stocks[k]) = StockOf(watch_remnants[origin[k]])

\* C4: divide(lst, n) with n >= 1 yields ceil(Len(lst) / n) chunks, each of n
\* elements except the last, which has between 1 and n; the chunks concatenated
\* in order are lst; an empty list yields no chunk.
C4_DivideChunks ==
    (call.fn = "divide" /\ ret.done) =>
        LET L  == Len(call.lst)
            ch == ret.value
            ceil == CHOOSE c \in 0..L : c * call.n >= L /\ (c = 0 \/ (c - 1) * call.n < L)
        IN  /\ Len(ch) = ceil
            /\ \A k \in 1..(Len(ch) - 1) : Len(ch[k]) = call.n
            /\ Len(ch) > 0 => (1 <= Len(ch[Len(ch)]) /\ Len(ch[Len(ch)]) <= call.n)
            /\ Flatten(ch) = call.lst
            /\ L = 0 => ch = <<>>

\* a list that does not divide evenly has been split into several chunks
C4_Witness ==
    /\ call.fn = "divide" /\ ret.done
    /\ Len(ret.value) = 2 /\ Len(ret.value[2]) = 1 /\ call.n = 2

\* C5: a stock update built from a source record carries 100 when the string
\* form of the record's quantity is ">10", 0 when it is "1", and otherwise the
\* integer the quantity denotes: the int itself, or the number whose decimal
\* numeral the string is.
C5_QuantityNormalized ==
    Reconciled =>
        \A k \in 1..Len(stocks) :
            origin[k] # 0 =>
                LET q  == watch_remnants[origin[k]].Kolichestvo
                    sf == IF q.t = "int" THEN Digits(q.n) ELSE q.s
                IN  /\ sf = <<">", "1", "0">> => Qty(stocks[k]) = 100
                    /\ sf = <<"1">> => Qty(stocks[k]) = 0
                    /\ sf = <<"4", "2">> => Qty(stocks[k]) = 42
                    /\ sf = <<"0">> => Qty(stocks[k]) = 0
                    /\ (sf # <<">", "1", "0">> /\ sf # <<"1">>) =>
                          IF q.t = "int" THEN Qty(stocks[k]) = q.n
                          ELSE Digits(Qty(stocks[k])) = q.s

\* one reconciliation has mapped a ">10" record to 100 and a "42" record to 42
C5_Witness ==
    /\ Reconciled
    /\ \E k \in 1..Len(stocks) :
         /\ origin[k] # 0
         /\ watch_remnants[origin[k]].Kolichestvo = Str(<<">", "1", "0">>)
         /\ Qty(stocks[k]) = 100
    /\ \E k \in 1..Len(stocks) :
         /\ origin[k] # 0
         /\ watch_remnants[origin[k]].Kolichestvo = Str(<<"4", "2">>)
         /\ Qty(stocks[k]) = 42

\* the positions of s before its first dot that hold a digit
DigitPositions(s) ==
    {i \in 1..Len(s) : /\ s[i] \in {"0", "1", "2", "3", "4", "5", "6", "7", "8", "9"}
                       /\ \A j \in 1..i : s[j] # "."}

\* C6: price_conversion(price) is the digits of the part of price before its
\* first dot, in their order: as many characters as that part has digits, the
\* j-th of them the j-th digit of that part; so it is empty when that part has
\* no digit.
C6_PriceDigits ==
    (call.fn = "price_conversion" /\ ret.done) =>
        LET pos == DigitPositions(call.price)
        IN  /\ Len(ret.value) = Cardinality(pos)
            /\ \A i \in pos :
                 ret.value[Cardinality({j \in pos : j <= i})] = call.price[i]
            /\ (pos = {}) => ret.value = <<>>

\* the price 5'990.00 with its currency suffix has been converted to 5990
C6_Witness ==
    /\ call.fn = "price_conversion" /\ ret.done
    /\ call.price = P5990
    /\ ret.value = <<"5", "9", "9", "0">>

\* a main has run to its end: no request failed and nothing was raised
MainCompleted == IsMain(prog) /\ pc = "return" /\ exc = "none"

\* the items of the write requests of one kind that target t accepted, in order
Accepted(t, kind) ==
    Flatten([j \in 1..Len(writes) |->
                IF writes[j].target = t /\ writes[j].kind = kind /\ writes[j].status = "ok"
                THEN writes[j].items ELSE <<>>])

\* C2: when a main has run to its end with no request failing, for every target
\* whose catalog was fetched and every source record whose code is in that
\* catalog, the target has accepted a price update with that code and the
\* record's normalized price.
C2_PricesSubmitted ==
    MainCompleted =>
        \A t \in Targets :
            fetched[t].got =>
                \A i \in 1..Len(watch_remnants) :
                    In(PyStr(watch_remnants[i].Kod), fetched[t].ids) =>
                        \E m \in 1..Len(Accepted(t, "prices")) :
                            LET u == Accepted(t, "prices")[m]
                                norm == SubNonDigits(SplitDot0(watch_remnants[i].Tsena))
                            IN  /\ PriceKey(u) = PyStr(watch_remnants[i].Kod)
                                /\ IF IsSeller(prog) THEN u.price = norm
                                   ELSE Digits(u.price.value) = norm

\* C3: when a main has run to its end with no request failing, for every target
\* whose catalog was fetched, every identifier of that catalog is the key of
\* exactly one accepted stock update and no accepted stock update has a key
\* outside the catalog.
C3_EverySkuOnce ==
    MainCompleted =>
        \A t \in Targets :
            fetched[t].got =>
                LET ups  == Accepted(t, "stocks")
                    keys == {Key(ups[k]) : k \in 1..Len(ups)}
                    ids  == {fetched[t].ids[i] : i \in 1..Len(fetched[t].ids)}
                IN  keys = ids /\ Cardinality(keys) = Len(ups)

\* C7: once a marketplace request has returned a non-2xx status no request is
\* issued any more: the run is in its handler or has ended, the only failed
\* write request is the last one, so every request before it stays accepted, and
\* no chunk of a list is sent twice.
C7_FailureAborts ==
    /\ ~reqAfterFail
    /\ failed => pc \in {"except", "return", "propagate"}
    /\ \A j \in 1..(Len(writes) - 1) : writes[j].status = "ok"
    /\ \A i, j \in 1..Len(writes) :
         (writes[i].target = writes[j].target /\ writes[i].kind = writes[j].kind
            /\ writes[i].idx = writes[j].idx) => i = j

\* a write request returned non-2xx after another one had been accepted, and the
\* run has ended
C7_Witness ==
    /\ failed /\ pc = "return"
    /\ Len(writes) >= 2
    /\ writes[1].status = "ok"
    /\ writes[Len(writes)].status = "HTTPError"

\* C8: a main never ends by passing an exception to its caller.
C8_MainSwallows == IsMain(prog) => outcome # "raised"

\* the most items the endpoint of target t takes in one request of that kind
Ceiling(t, kind) ==
    IF t = "ozon" THEN (IF kind = "stocks" THEN OzonStocksChunk ELSE OzonPricesChunk)
    ELSE (IF kind = "stocks" THEN YandexStocksChunk ELSE YandexPricesChunk)

\* C9: every write request issued carries at least one item and at most the
\* ceiling of its endpoint, and while the list being uploaded is empty no write
\* request for it has been issued.
C9_BatchSizes ==
    /\ \A j \in 1..Len(writes) :
         /\ Len(writes[j].items) >= 1
         /\ Len(writes[j].items) <= Ceiling(writes[j].target, writes[j].kind)
    /\ (pc = "update_stocks" /\ stocks = <<>>) =>
         \A j \in 1..Len(writes) : ~(writes[j].target = phase /\ writes[j].kind = "stocks")
    /\ (pc = "update_price" /\ prices = <<>>) =>
         \A j \in 1..Len(writes) : ~(writes[j].target = phase /\ writes[j].kind = "prices")

\* a request carrying exactly the ceiling of its endpoint was followed by the
\* request carrying the rest of the list
C9_Witness ==
    \E j \in 1..(Len(writes) - 1) :
        /\ Len(writes[j].items) = Ceiling(writes[j].target, writes[j].kind)
        /\ writes[j + 1].target = writes[j].target
        /\ writes[j + 1].kind = writes[j].kind
        /\ writes[j + 1].idx = writes[j].idx + 1

\* C10: seller.get_offer_ids asks for another page only while it has collected
\* fewer items than the total of the last response.
C10_StopsAtTotal ==
    (pc = "get_offer_ids" /\ IsSeller(prog) /\ total.known) => Len(product_list) < total.n

\* C11: once download_stock has finished, by returning the parsed records or
\* by raising because parsing failed, the extracted file ostatki.xls does not
\* exist.
C11_ExtractedFileRemoved ==
    (IsMain(prog) /\ pc # "download_stock") => ~ostatki_xls

\* the updates of ups built from a source record whose key is x
Matches(ups, org, x) == Cardinality({k \in 1..Len(ups) : org[k] # 0 /\ Key(ups[k]) = x})

\* the positions of ids that one removal per update built from a source record
\* takes away, each removal taking the earliest occurrence still there
Dropped(ids, ups, org) ==
    LET matched == {Key(ups[k]) : k \in {m \in 1..Len(ups) : org[m] # 0}}
    IN  {i \in 1..Len(ids) :
            /\ ids[i] \in matched
            /\ Cardinality({j \in 1..i : ids[j] = ids[i]}) <= Matches(ups, org, ids[i])}

\* rest is ids without the positions in gone, in the order of ids
IsRemainder(rest, ids, gone) ==
    /\ Len(rest) = Len(ids) - Cardinality(gone)
    /\ \A i \in (1..Len(ids)) \ gone :
         rest[i - Cardinality({d \in gone : d < i})] = ids[i]

\* C12: create_stocks leaves the source records as they were and, when it
\* returns, has turned the caller's offer_ids into the original identifiers less
\* one occurrence per update built from a source record, the others in their
\* original order; create_prices leaves the source records and offer_ids as
\* they were.
C12_FrameEffects ==
    /\ [](Reconciled =>
            /\ IsRemainder(offer_ids, fetched[phase].ids,
                           Dropped(fetched[phase].ids, stocks, origin))
            /\ Cardinality(Dropped(fetched[phase].ids, stocks, origin))
                 = Cardinality({k \in 1..Len(origin) : origin[k] # 0}))
    /\ [][ (pc = "create_stocks" =>
                (watch_remnants' = watch_remnants /\ offer_ids = fetched[phase].ids))
           /\ (pc = "create_prices" =>
                (watch_remnants' = watch_remnants /\ offer_ids' = offer_ids)) ]_vars

\* seller.main has run create_stocks and then create_prices on a catalog that
\* lists a matched identifier twice: one occurrence was removed, one is left
C12_Witness ==
    /\ prog = "seller.main" /\ pc = "update_price" /\ sent = 0
    /\ offer_ids # <<>>
    /\ Len(offer_ids) < Len(fetched[phase].ids)
    /\ \E k \in 1..Len(stocks) : origin[k] # 0 /\ In(Key(stocks[k]), offer_ids)

\* C13: when create_stocks returns, an identifier the catalog lists once and
\* several source records carry has exactly one update, built from the first of
\* those records; the result is as long as the offer_ids list given, and its
\* updates built from source records all come before its synthetic ones.
C13_FirstRecordWins ==
    Reconciled =>
        LET ids   == fetched[phase].ids
            codes == {PyStr(watch_remnants[i].Kod) : i \in 1..Len(watch_remnants)}
        IN  /\ \A c \in codes :
                 ( /\ Cardinality({i \in 1..Len(ids) : ids[i] = c}) = 1
                   /\ Cardinality({i \in 1..Len(watch_remnants) :
                                      PyStr(watch_remnants[i].Kod) = c}) >= 2 ) =>
                     LET ks == {k \in 1..Len(stocks) : Key(stocks[k]) = c}
                     IN  /\ Cardinality(ks) = 1
                         /\ \A k \in ks :
                              /\ origin[k] # 0
                              /\ PyStr(watch_remnants[origin[k]].Kod) = c
                              /\ \A j \in 1..(origin[k] - 1) :
                                   PyStr(watch_remnants[j].Kod) # c
                              /\ Qty(stocks[k]) = StockOf(watch_remnants[origin[k]])
            /\ Len(stocks) = Len(ids)
            /\ \A k \in 1..(Len(stocks) - 1) : origin[k] = 0 => origin[k + 1] = 0

\* a feed of two records with the same code met a catalog that lists that code
\* once and another identifier: the first record gave the update, then came a
\* synthetic one
C13_Witness ==
    /\ Reconciled
    /\ Len(watch_remnants) = 2
    /\ PyStr(watch_remnants[1].Kod) = PyStr(watch_remnants[2].Kod)
    /\ watch_remnants[1] # watch_remnants[2]
    /\ Len(fetched[phase].ids) = 2
    /\ fetched[phase].ids[1] # fetched[phase].ids[2]
    /\ origin = <<1, 0>>
    /\ Key(stocks[1]) = PyStr(watch_remnants[1].Kod)

====
